---- MODULE Spec2Model ----
(***************************************************************************)
(* A model of dashboard/dashboard.py: the Streamlit script that loads the  *)
(* combined e-commerce CSV, joins it with its de-duplicated geolocation    *)
(* rows, filters it by the sidebar date range and computes six aggregates. *)
(*                                                                         *)
(* Tables (DataFrames) are sequences of records.  A missing value (NaN,    *)
(* NaT, None) is the empty tuple Null and a present value v is <<v>>.      *)
(* Timestamps are integer ticks, TicksPerDay of them in a calendar day; a  *)
(* date is a day number.  Floats (payment values, coordinates) are         *)
(* integers.  Column names of the merge result are taken as the script     *)
(* reads them (geolocation_lng, geolocation_lat); the suffixes pandas      *)
(* gives to overlapping column names are not modelled.                     *)
(***************************************************************************)
EXTENDS Integers, Sequences, FiniteSets, TLC

VARIABLES
    csv,                \* the rows of the file the script reads
    pc,                 \* "start" before the first script run, "done" after one
    raised,             \* "" or the exception that ended the last script run
    all_df, geolocation_df, customers_df, customers_gdf,
    date_range, filtered_df,
    daily_orders, daily_spending, product_sales, customer_states,
    review_stats, top_review, sum_order_items_df,
    df,                 \* the table a function is called on, on its own
    geo,                \* the geolocation table merge_customer_geolocation is given
    out                 \* the result of de-duplicating a second time

vars == <<csv, pc, raised, all_df, geolocation_df, customers_df, customers_gdf,
          date_range, filtered_df, daily_orders, daily_spending, product_sales,
          customer_states, review_stats, top_review, sum_order_items_df, df, geo, out>>

(***************************************************************************)
(* Bounds of the model.                                                    *)
(***************************************************************************)
MaxRows == 2        \* rows of the CSV the dashboard runs on
MaxLen == 3         \* rows of a table a function is called on, on its own
MaxReviews == 4     \* rows of a table analyze_review_scores is called on
TicksPerDay == 2    \* timestamps told apart within one calendar day

Null == <<>>
Some(v) == <<v>>
IsNull(x) == x = Null
NotNull(x) == x # Null
Val(x) == x[1]

\* The calendar days and the orders of the drawn rows.
Days == {0, 1}
OrderIds == {1, 2}
Times == {d * TicksPerDay + k : d \in Days, k \in 0 .. (TicksPerDay - 1)}
MaybeTimes == {Null} \cup {Some(t) : t \in Times}

Range(s) == {s[i] : i \in DOMAIN s}

Tables(pool, n) == UNION {[1 .. k -> pool] : k \in 0 .. n}

Perms(n) == {p \in [1 .. n -> 1 .. n] : {p[i] : i \in 1 .. n} = 1 .. n}

Max(S) == CHOOSE x \in S : \A y \in S : y <= x
Min(S) == CHOOSE x \in S : \A y \in S : x <= y

RECURSIVE SumSeq(_)
SumSeq(s) == IF s = <<>> THEN 0 ELSE s[1] + SumSeq(Tail(s))

Column(s, col) == [i \in 1 .. Len(s) |-> s[i][col]]

\* The table as a multiset of rows.
BagOf(s) == [x \in Range(s) |-> Cardinality({i \in DOMAIN s : s[i] = x})]

(***************************************************************************)
(* pandas / datetime primitives                                            *)
(***************************************************************************)

\* Timestamp.date() / the 'D' resample bucket of a timestamp.
DateOf(t) == t \div TicksPerDay

\* str(date) compared with a datetime column: pandas parses "YYYY-MM-DD" to
\* the timestamp of that date's midnight.
StrToTimestamp(d) == d * TicksPerDay

\* DataFrame.sort_values / Series.sort_values of the rows s by their keys,
\* ascending, with the default kind='quicksort', which is not stable: every
\* arrangement of the rows in which the keys do not decrease.
sort_values(s, keys) ==
    {[i \in 1 .. Len(s) |-> s[p[i]]] :
        p \in {q \in Perms(Len(s)) :
                 \A i \in 1 .. (Len(s) - 1) : keys[q[i]] <= keys[q[i + 1]]}}

\* ascending=False
Descending(keys) == [i \in 1 .. Len(keys) |-> 0 - keys[i]]

\* by="order_approved_at": NaT sorts after every timestamp (na_position='last')
TimeKeys(s) ==
    LET times == {Val(s[i].order_approved_at) : i \in {j \in DOMAIN s : NotNull(s[j].order_approved_at)}}
        last == IF times = {} THEN 0 ELSE Max(times) + 1
    IN [i \in 1 .. Len(s) |->
          IF NotNull(s[i].order_approved_at) THEN Val(s[i].order_approved_at) ELSE last]

load_data(file) == sort_values(file, TimeKeys(file))

\* A de-duplication that stops at the first duplicate it drops.
RECURSIVE drop_duplicates_once(_)
drop_duplicates_once(s) ==
    IF s = <<>> THEN <<>>
    ELSE LET n == Len(s)
             front == SubSeq(s, 1, n - 1)
         IN IF \E i \in 1 .. n - 1 :
                   s[i].geolocation_zip_code_prefix = s[n].geolocation_zip_code_prefix
            THEN front
            ELSE Append(drop_duplicates_once(front), s[n])

RECURSIVE drop_duplicates(_)
drop_duplicates(s) ==
    IF s = <<>> THEN <<>>
    ELSE LET n == Len(s)
             front == SubSeq(s, 1, n - 1)
         IN IF \E i \in 1 .. n - 1 :
                   s[i].geolocation_zip_code_prefix = s[n].geolocation_zip_code_prefix
            THEN drop_duplicates(front)
            ELSE Append(drop_duplicates(front), s[n])

load_geolocation(file) == drop_duplicates(file)

\* One row of the left join's result: the customer row with the matched
\* geolocation row's key and coordinates, or with them missing.
Joined(c, zip, lat, lng) ==
    [customer |-> c, geolocation_zip_code_prefix |-> zip,
     geolocation_lat |-> lat, geolocation_lng |-> lng]

\* The join with how='inner': a customer row without a match is dropped.
RECURSIVE merge_inner(_, _)
merge_inner(customers, geolocation) ==
    IF customers = <<>> THEN <<>>
    ELSE LET c == customers[1]
             Match(g) == g.geolocation_zip_code_prefix = c.customer_zip_code_prefix
             m == SelectSeq(geolocation, Match)
             rows == [i \in 1 .. Len(m) |->
                         Joined(c, Some(m[i].geolocation_zip_code_prefix),
                                m[i].geolocation_lat, m[i].geolocation_lng)]
         IN rows \o merge_inner(Tail(customers), geolocation)

RECURSIVE merge_customer_geolocation(_, _)
merge_customer_geolocation(customers, geolocation) ==
    IF customers = <<>> THEN <<>>
    ELSE LET c == customers[1]
             Match(g) == g.geolocation_zip_code_prefix = c.customer_zip_code_prefix
             m == SelectSeq(geolocation, Match)
             rows == IF m = <<>>
                     THEN <<Joined(c, Null, Null, Null)>>
                     ELSE [i \in 1 .. Len(m) |->
                             Joined(c, Some(m[i].geolocation_zip_code_prefix),
                                    m[i].geolocation_lat, m[i].geolocation_lng)]
         IN rows \o merge_customer_geolocation(Tail(customers), geolocation)

\* line 82: Point(lng, lat) if pd.notnull(lng) else None
geometry(x) ==
    IF NotNull(x.geolocation_lng)
    THEN Some(<<x.geolocation_lng, x.geolocation_lat>>)
    ELSE Null

with_geometry(joined) ==
    [i \in 1 .. Len(joined) |-> [row |-> joined[i], geometry |-> geometry(joined[i])]]

HasGeometry(x) == NotNull(x.geometry)

\* line 83: dropna(subset=['geometry'])
dropna_geometry(c) == SelectSeq(c, HasGeometry)

(***************************************************************************)
(* The date filter and the six aggregation functions                       *)
(***************************************************************************)

\* lines 94-95: a comparison with NaT is False, so a row without an approval
\* timestamp is never kept.
FilterByDate(a, dr) ==
    LET Keep(r) == /\ NotNull(r.order_approved_at)
                   /\ Val(r.order_approved_at) >= StrToTimestamp(dr[1])
                   /\ Val(r.order_approved_at) <= StrToTimestamp(dr[2])
    IN SelectSeq(a, Keep)

HasTime(r) == NotNull(r.order_approved_at)

\* The calendar days of resample('D', on='order_approved_at'): every day
\* from the first to the last day that holds a row; rows without a
\* timestamp fall into no bucket.
ResampleDays(d) ==
    LET days == {DateOf(Val(d[i].order_approved_at)) : i \in {j \in DOMAIN d : HasTime(d[j])}}
    IN IF days = {} THEN <<>>
       ELSE [k \in 1 .. (Max(days) - Min(days) + 1) |-> Min(days) + k - 1]

RowsOfDay(d, day) ==
    LET OnDay(r) == HasTime(r) /\ DateOf(Val(r.order_approved_at)) = day
    IN SelectSeq(d, OnDay)

\* The aggregation with "order_id": "count" instead of "nunique".
prepare_daily_orders_count(d) ==
    LET days == ResampleDays(d)
    IN [k \in 1 .. Len(days) |->
          [order_approved_at |-> days[k],
           total_orders |-> Len(RowsOfDay(d, days[k])),
           total_revenue |-> SumSeq(Column(RowsOfDay(d, days[k]), "payment_value"))]]

prepare_daily_orders(d) ==
    LET days == ResampleDays(d)
    IN [k \in 1 .. Len(days) |->
          [order_approved_at |-> days[k],
           total_orders |-> Cardinality(Range(Column(RowsOfDay(d, days[k]), "order_id"))),
           total_revenue |-> SumSeq(Column(RowsOfDay(d, days[k]), "payment_value"))]]

\* The aggregation with .first() instead of .sum().
compute_total_spending_first(d) ==
    LET days == ResampleDays(d)
        First(rows) == IF rows = <<>> THEN 0 ELSE rows[1].payment_value
    IN [k \in 1 .. Len(days) |->
          [order_approved_at |-> days[k],
           daily_spending |-> First(RowsOfDay(d, days[k]))]]

compute_total_spending(d) ==
    LET days == ResampleDays(d)
    IN [k \in 1 .. Len(days) |->
          [order_approved_at |-> days[k],
           daily_spending |-> SumSeq(Column(RowsOfDay(d, days[k]), "payment_value"))]]

\* groupby sorts its keys ascending.
RECURSIVE Ascending(_)
Ascending(S) == IF S = {} THEN <<>> ELSE <<Min(S)>> \o Ascending(S \ {Min(S)})

GroupKeys(d, col) == Ascending(Range(Column(d, col)))

RowsOfGroup(d, col, key) ==
    LET InGroup(r) == r[col] = key
    IN SelectSeq(d, InGroup)

aggregate_products(d) ==
    LET keys == GroupKeys(d, "product_category_name_english")
        product_df == [k \in 1 .. Len(keys) |->
            [product_category_name_english |-> keys[k],
             total_sold |-> Len(RowsOfGroup(d, "product_category_name_english", keys[k]))]]
    IN sort_values(product_df, Descending(Column(product_df, "total_sold")))

customer_distribution_by_state(d) ==
    LET keys == GroupKeys(d, "customer_state")
        state_df == [k \in 1 .. Len(keys) |->
            [customer_state |-> keys[k],
             num_customers |-> Cardinality(Range(Column(
                 RowsOfGroup(d, "customer_state", keys[k]), "customer_id")))]]
    IN sort_values(state_df, Descending(Column(state_df, "num_customers")))

\* The distinct values of a sequence in the order they are first met.
RECURSIVE FirstSeen(_)
FirstSeen(s) ==
    IF s = <<>> THEN <<>>
    ELSE LET n == Len(s)
             front == FirstSeen(SubSeq(s, 1, n - 1))
         IN IF \E i \in 1 .. n - 1 : s[i] = s[n] THEN front ELSE Append(front, s[n])

\* Series.value_counts(): missing scores are dropped, the scores are counted
\* in the order they are first met, and the counts are then sorted
\* descending (sort=True).
value_counts(d) ==
    LET scores == Column(SelectSeq(Column(d, "review_score"), NotNull), 1)
        keys == FirstSeen(scores)
        counted == [k \in 1 .. Len(keys) |->
            [rating |-> keys[k],
             count |-> Cardinality({i \in DOMAIN scores : scores[i] = keys[k]})]]
    IN sort_values(counted, Descending(Column(counted, "count")))

\* Series.idxmax(): the label of the first row holding the maximum; it
\* raises ValueError on an empty Series.
idxmax_raises(s) == s = <<>>

\* The label of the last row holding the maximum.
idxmax_last(s) ==
    LET top == Max(Range(Column(s, "count")))
        last == Max({i \in DOMAIN s : s[i].count = top})
    IN s[last].rating

idxmax(s) ==
    LET top == Max(Range(Column(s, "count")))
        first == Min({i \in DOMAIN s : s[i].count = top})
    IN s[first].rating

analyze_review_scores_raises(d) ==
    \A counts \in value_counts(d) : idxmax_raises(counts)

analyze_review_scores(d) ==
    {[score_counts |-> sc, top |-> idxmax(sc)] :
        sc \in UNION {sort_values(vc, Descending(Column(vc, "count"))) : vc \in value_counts(d)}}

analyze_top_low_products(d) ==
    LET keys == GroupKeys(d, "product_category_name_english")
    IN [k \in 1 .. Len(keys) |->
          [product_category_name_english |-> keys[k],
           products |-> Len(RowsOfGroup(d, "product_category_name_english", keys[k]))]]

(***************************************************************************)
(* The rows the model draws its tables from                                *)
(***************************************************************************)
Row(oid, cid, t, pay, score, prod, cat, state, zip, gzip, lat, lng) ==
    [order_id |-> oid, customer_id |-> cid, order_approved_at |-> t,
     payment_value |-> pay, review_score |-> score, product_id |-> prod,
     product_category_name_english |-> cat, customer_state |-> state,
     customer_zip_code_prefix |-> zip, geolocation_zip_code_prefix |-> gzip,
     geolocation_lat |-> lat, geolocation_lng |-> lng]

\* An order line of order i approved at t: the order's columns follow from
\* the order, and the geolocation columns of the line describe the zip
\* prefix after the customer's own.
OrderRow(i, t) ==
    Row(i, i, t, 10 * i, Some(i), i, i, i, i,
        IF i + 1 \in OrderIds THEN i + 1 ELSE Min(OrderIds), Some(i), Some(i))

DashRows == {OrderRow(i, t) : i \in OrderIds, t \in MaybeTimes}

(***************************************************************************)
(* The script, run top to bottom on every interaction                      *)
(***************************************************************************)
ApprovalTimes(a) == {Val(a[i].order_approved_at) : i \in {j \in DOMAIN a : HasTime(a[j])}}

\* line 91: the default value of the date picker
DefaultRange(a) == <<DateOf(Min(ApprovalTimes(a))), DateOf(Max(ApprovalTimes(a)))>>

\* The dates the model lets the user pick: those of the default range and
\* the day after it (the picker, given no min_value or max_value, offers
\* the years around its default value).
OfferedDates(a) == DefaultRange(a)[1] .. (DefaultRange(a)[2] + 1)

\* The script's table with the point geometry of line 82 drawn from the rows
\* of the selected range instead of all rows.
customers_df_of_filtered(a, g) ==
    with_geometry(merge_customer_geolocation(
        IF Len(date_range') = 2 THEN FilterByDate(a, date_range') ELSE a, g))

\* lines 79-82
customers_df_of(a, g) == with_geometry(merge_customer_geolocation(a, g))

\* A filtered table kept from the previous run instead of being recomputed.
filtered_df_of_cached(a, dr) ==
    IF pc = "done" /\ raised # "IndexError" THEN filtered_df ELSE FilterByDate(a, dr)

\* lines 94-95
filtered_df_of(a, dr) == FilterByDate(a, dr)

NoAggregates ==
    /\ filtered_df' = Null
    /\ daily_orders' = Null
    /\ daily_spending' = Null
    /\ product_sales' = Null
    /\ customer_states' = Null
    /\ review_stats' = Null
    /\ top_review' = Null
    /\ sum_order_items_df' = Null

\* One run of the script with the date picker holding sel (Null: untouched).
\* The sort of load_data is a function of the file: the order it gave rows
\* of equal timestamps in the session's first run it gives in every rerun.
RunScript(sel) ==
    \E a \in {x \in load_data(csv) : pc = "done" => x = all_df} :
        /\ pc' = "done"
        /\ all_df' = a
        /\ geolocation_df' = load_geolocation(csv)
        /\ date_range' = IF sel = Null THEN DefaultRange(a) ELSE sel
        /\ customers_df' = customers_df_of(a, geolocation_df')
        /\ customers_gdf' = dropna_geometry(customers_df')
        /\ IF Len(date_range') < 2
           THEN \* line 95: date_range[1] raises
                raised' = "IndexError" /\ NoAggregates
           ELSE /\ filtered_df' = filtered_df_of(a, date_range')
                /\ daily_orders' = prepare_daily_orders(filtered_df')
                /\ daily_spending' = compute_total_spending(filtered_df')
                /\ product_sales' \in aggregate_products(filtered_df')
                /\ customer_states' \in customer_distribution_by_state(filtered_df')
                /\ IF analyze_review_scores_raises(filtered_df')
                   THEN \* line 69, called from line 101
                        /\ raised' = "ValueError"
                        /\ review_stats' = Null
                        /\ top_review' = Null
                        /\ sum_order_items_df' = Null
                   ELSE /\ \E r \in analyze_review_scores(filtered_df') :
                              /\ review_stats' = r.score_counts
                              /\ top_review' = r.top
                        /\ sum_order_items_df' = analyze_top_low_products(filtered_df')
                        /\ raised' = ""
        /\ UNCHANGED <<csv, df, geo, out>>

FirstRun ==
    /\ pc = "start"
    /\ RunScript(Null)

\* The user completes a range in the sidebar's date picker.
SelectDateRange ==
    /\ pc = "done"
    /\ \E s, e \in OfferedDates(all_df) :
          /\ s <= e
          /\ RunScript(<<s, e>>)

\* The user has clicked a start date and not yet an end date.
SelectStartDate ==
    /\ pc = "done"
    /\ \E s \in OfferedDates(all_df) : RunScript(<<s>>)

\* Everything but the inputs, before anything has run.
Unset ==
    /\ pc = "start"
    /\ raised = ""
    /\ all_df = Null
    /\ geolocation_df = Null
    /\ customers_df = Null
    /\ customers_gdf = Null
    /\ date_range = Null
    /\ filtered_df = Null
    /\ daily_orders = Null
    /\ daily_spending = Null
    /\ product_sales = Null
    /\ customer_states = Null
    /\ review_stats = Null
    /\ top_review = Null
    /\ sum_order_items_df = Null
    /\ out = Null

\* The dashboard: a CSV with at least one approved order.
Init ==
    /\ csv \in Tables(DashRows, MaxRows)
    /\ \E i \in DOMAIN csv : HasTime(csv[i])
    /\ df = Null
    /\ geo = Null
    /\ Unset

Next ==
    \/ FirstRun
    \/ SelectDateRange
    \/ SelectStartDate

Spec == Init /\ [][Next]_vars

(***************************************************************************)
(* The functions called on their own, on tables drawn from small sets      *)
(***************************************************************************)
BaseRow == Row(1, 1, Some(0), 10, Some(5), 1, 1, 1, 1, 1, Some(1), Some(1))

NoDashboardInput == csv = Null /\ geo = Null

\* --- prepare_daily_orders and compute_total_spending ---------------------
\* No timestamp, midnight of day 0, later on day 0, midnight of day 2.
CallTimes == {Null, Some(0), Some(1), Some(StrToTimestamp(2))}
Payments == {10, 20, 30}

\* Rows that differ in order and approval time, and rows that differ in
\* payment and approval time.
DailyRows ==
    {[BaseRow EXCEPT !.order_id = i, !.order_approved_at = t] :
        i \in OrderIds, t \in CallTimes}
    \cup {[BaseRow EXCEPT !.payment_value = p, !.order_approved_at = t] :
        p \in Payments, t \in CallTimes}

\* A non-empty table with at least one approval timestamp.
InitDaily ==
    /\ df \in Tables(DailyRows, MaxLen)
    /\ \E i \in DOMAIN df : HasTime(df[i])
    /\ NoDashboardInput
    /\ Unset

CallPrepareDailyOrders ==
    /\ pc = "start"
    /\ daily_orders' = prepare_daily_orders(df)
    /\ pc' = "orders"
    /\ UNCHANGED <<csv, raised, all_df, geolocation_df, customers_df, customers_gdf,
                   date_range, filtered_df, daily_spending, product_sales,
                   customer_states, review_stats, top_review, sum_order_items_df,
                   df, geo, out>>

CallComputeTotalSpending ==
    /\ pc = "orders"
    /\ daily_spending' = compute_total_spending(df)
    /\ pc' = "spending"
    /\ UNCHANGED <<csv, raised, all_df, geolocation_df, customers_df, customers_gdf,
                   date_range, filtered_df, daily_orders, product_sales,
                   customer_states, review_stats, top_review, sum_order_items_df,
                   df, geo, out>>

NextDaily ==
    \/ CallPrepareDailyOrders
    \/ CallComputeTotalSpending

SpecDaily == InitDaily /\ [][NextDaily]_vars

\* --- analyze_review_scores -----------------------------------------------
Scores == {3, 4, 5}

ReviewRows ==
    {[BaseRow EXCEPT !.review_score = s] : s \in {Null} \cup {Some(x) : x \in Scores}}

InitReview ==
    /\ df \in Tables(ReviewRows, MaxReviews)
    /\ NoDashboardInput
    /\ Unset

CallAnalyzeReviewScores ==
    /\ pc = "start"
    /\ pc' = "analyzed"
    /\ IF analyze_review_scores_raises(df)
       THEN raised' = "ValueError" /\ UNCHANGED <<review_stats, top_review>>
       ELSE /\ \E r \in analyze_review_scores(df) :
                  /\ review_stats' = r.score_counts
                  /\ top_review' = r.top
            /\ UNCHANGED raised
    /\ UNCHANGED <<csv, all_df, geolocation_df, customers_df, customers_gdf,
                   date_range, filtered_df, daily_orders, daily_spending,
                   product_sales, customer_states, sum_order_items_df, df, geo, out>>

NextReview == CallAnalyzeReviewScores

SpecReview == InitReview /\ [][NextReview]_vars

\* --- load_geolocation, merge_customer_geolocation, the GeoDataFrame --------
Zips == {1, 2}
Coords == {Null, Some(7)}

GeoRows ==
    {[BaseRow EXCEPT !.geolocation_zip_code_prefix = z,
                     !.geolocation_lat = lat, !.geolocation_lng = lng] :
        z \in Zips, lat \in Coords, lng \in Coords}

CustomerRows == {[BaseRow EXCEPT !.customer_zip_code_prefix = z] : z \in Zips}

\* csv: the rows of the geolocation file; df: the customer table.
InitGeo ==
    /\ csv \in Tables(GeoRows, MaxLen)
    /\ df \in Tables(CustomerRows, MaxRows)
    /\ geo = Null
    /\ Unset

CallLoadGeolocation ==
    /\ pc = "start"
    /\ geolocation_df' = load_geolocation(csv)
    /\ pc' = "loaded"
    /\ UNCHANGED <<csv, raised, all_df, customers_df, customers_gdf, date_range,
                   filtered_df, daily_orders, daily_spending, product_sales,
                   customer_states, review_stats, top_review, sum_order_items_df,
                   df, geo, out>>

\* The drop-duplicates step applied to its own output.
CallDropDuplicatesAgain ==
    /\ pc = "loaded"
    /\ out' = drop_duplicates(geolocation_df)
    /\ pc' = "deduplicated"
    /\ UNCHANGED <<csv, raised, all_df, geolocation_df, customers_df, customers_gdf,
                   date_range, filtered_df, daily_orders, daily_spending,
                   product_sales, customer_states, review_stats, top_review,
                   sum_order_items_df, df, geo>>

\* The join, given the file's rows as they are or de-duplicated; then line 82.
CallMergeCustomerGeolocation ==
    /\ pc \in {"start", "loaded", "deduplicated"}
    /\ geo' = IF pc = "start" THEN csv ELSE geolocation_df
    /\ customers_df' = customers_df_of(df, geo')
    /\ pc' = "merged"
    /\ UNCHANGED <<csv, raised, all_df, geolocation_df, customers_gdf, date_range,
                   filtered_df, daily_orders, daily_spending, product_sales,
                   customer_states, review_stats, top_review, sum_order_items_df,
                   df, out>>

\* line 83
MakeGeoDataFrame ==
    /\ pc = "merged"
    /\ customers_gdf' = dropna_geometry(customers_df)
    /\ pc' = "mapped"
    /\ UNCHANGED <<csv, raised, all_df, geolocation_df, customers_df, date_range,
                   filtered_df, daily_orders, daily_spending, product_sales,
                   customer_states, review_stats, top_review, sum_order_items_df,
                   df, geo, out>>

NextGeo ==
    \/ CallLoadGeolocation
    \/ CallDropDuplicatesAgain
    \/ CallMergeCustomerGeolocation
    \/ MakeGeoDataFrame

SpecGeo == InitGeo /\ [][NextGeo]_vars

(***************************************************************************)
(* Properties of the dashboard (specification Spec)                        *)
(***************************************************************************)
Rendered == pc = "done" /\ raised = ""

RangeSelected == pc = "done" /\ Len(date_range) = 2

\* C2: whenever the charts are rendered, each of the six aggregates is a
\* result of its aggregation function on the rows of all_df that the range
\* now held by the date picker selects, whatever was selected before.
C2_AggregatesOfCurrentRange ==
    Rendered =>
        LET f == FilterByDate(all_df, date_range)
        IN /\ daily_orders = prepare_daily_orders(f)
           /\ daily_spending = compute_total_spending(f)
           /\ product_sales \in aggregate_products(f)
           /\ customer_states \in customer_distribution_by_state(f)
           /\ [score_counts |-> review_stats, top |-> top_review]
                  \in analyze_review_scores(f)
           /\ sum_order_items_df = analyze_top_low_products(f)

\* A range other than the default has been selected, it keeps some rows and
\* leaves some out, and the charts are rendered.
C2_Witness ==
    /\ Rendered
    /\ date_range # DefaultRange(all_df)
    /\ Len(filtered_df) > 0
    /\ \E i \in DOMAIN all_df :
          HasTime(all_df[i]) /\ all_df[i] \notin Range(filtered_df)

\* C3: in every run that filters, the range is a closed interval of dates
\* between the dates of the table's first and last approval, and filtered_df
\* holds exactly the rows approved on a date from the start date to the end
\* date, the whole end date included.
C3_ClosedIntervalOfDates ==
    RangeSelected =>
        /\ date_range[1] <= date_range[2]
        /\ DefaultRange(all_df)[1] <= date_range[1]
        /\ date_range[2] <= DefaultRange(all_df)[2]
        /\ \A i \in DOMAIN all_df :
              HasTime(all_df[i]) =>
                  (all_df[i] \in Range(filtered_df)
                      <=> /\ date_range[1] <= DateOf(Val(all_df[i].order_approved_at))
                          /\ DateOf(Val(all_df[i].order_approved_at)) <= date_range[2])

\* C4: a run whose range selects no row ends without an exception and with
\* all six aggregates empty.
C4_EmptyRangeRenders ==
    (RangeSelected /\ FilterByDate(all_df, date_range) = <<>>) =>
        /\ raised = ""
        /\ daily_orders = <<>>
        /\ daily_spending = <<>>
        /\ product_sales = <<>>
        /\ customer_states = <<>>
        /\ review_stats = <<>>
        /\ sum_order_items_df = <<>>

\* The rows of a table that get a point on the map.
MapRowsOf(a) ==
    dropna_geometry(with_geometry(merge_customer_geolocation(a, load_geolocation(csv))))

\* C10: after every run the rows drawn on the map are those of the whole
\* table all_df, and no later selection in the date picker changes them.
C10_MapOfAllRows ==
    /\ [](pc = "done" => BagOf(customers_gdf) = BagOf(MapRowsOf(all_df)))
    /\ [][pc = "done" => BagOf(customers_gdf') = BagOf(customers_gdf)]_vars

\* A selected range has left out rows, one of them drawn on the map.
C10_Witness ==
    /\ Rendered
    /\ date_range # DefaultRange(all_df)
    /\ Len(filtered_df) > 0
    /\ \E i \in DOMAIN customers_gdf :
          /\ HasTime(customers_gdf[i].row.customer)
          /\ customers_gdf[i].row.customer \notin Range(filtered_df)

(***************************************************************************)
(* Properties of the functions called on their own                         *)
(***************************************************************************)
OrderIdsOf(d) == {d[i].order_id : i \in DOMAIN d}

\* The calendar day of a timestamp, by its bounds.
OnCalendarDay(t, day) == day * TicksPerDay <= t /\ t < (day + 1) * TicksPerDay

IndexOnDay(d, day) ==
    {i \in DOMAIN d : HasTime(d[i]) /\ OnCalendarDay(Val(d[i].order_approved_at), day)}

\* A timestamp t >= 0 is of one of the days 0 .. t.
CalendarDays(d) ==
    {day \in 0 .. Max({0} \cup {Val(d[i].order_approved_at) : i \in {j \in DOMAIN d : HasTime(d[j])}}) :
        IndexOnDay(d, day) # {}}

\* Every order has an approved row and all its approved rows are of one day.
OneDayPerOrder(d) ==
    \A o \in OrderIdsOf(d) :
        Cardinality({day \in CalendarDays(d) :
            \E i \in IndexOnDay(d, day) : d[i].order_id = o}) = 1

TotalOrders == SumSeq(Column(daily_orders, "total_orders"))

\* C1 as claimed: for every non-empty table, total_orders summed over the
\* days of prepare_daily_orders' output is the number of distinct order_id
\* values of the table.
C1_SumIsDistinctOrders ==
    pc = "orders" => TotalOrders = Cardinality(OrderIdsOf(df))

\* C1 as amended: the sum counts an order once for every calendar day that
\* holds an approved row of it, so it is the number of distinct order_id
\* values when every order has an approved row and all its approved rows
\* fall on one day.
C1_SumIsOrdersPerDay ==
    pc = "orders" =>
        /\ TotalOrders =
              Cardinality({<<o, day>> \in OrderIdsOf(df) \X CalendarDays(df) :
                  \E i \in IndexOnDay(df, day) : df[i].order_id = o})
        /\ OneDayPerOrder(df) => TotalOrders = Cardinality(OrderIdsOf(df))

\* Two orders, each of one day, one of them with several rows.
C1_Witness ==
    /\ pc = "orders"
    /\ OneDayPerOrder(df)
    /\ Cardinality(OrderIdsOf(df)) = 2
    /\ Len(df) > 2
    /\ TotalOrders = 2

RECURSIVE SumPayments(_, _)
SumPayments(d, I) ==
    IF I = {} THEN 0
    ELSE LET i == CHOOSE x \in I : TRUE
         IN d[i].payment_value + SumPayments(d, I \ {i})

\* C7: for every day of compute_total_spending's output, daily_spending is
\* the sum of payment_value over exactly the rows approved on that day, and
\* it is total_revenue of that day in prepare_daily_orders' output.
C7_DailySpendingIsSum ==
    pc = "spending" =>
        /\ Len(daily_spending) = Len(daily_orders)
        /\ CalendarDays(df) \subseteq Range(Column(daily_spending, "order_approved_at"))
        /\ \A k \in DOMAIN daily_spending :
              /\ daily_spending[k].daily_spending =
                     SumPayments(df, IndexOnDay(df, daily_spending[k].order_approved_at))
              /\ daily_orders[k].order_approved_at = daily_spending[k].order_approved_at
              /\ daily_orders[k].total_revenue = daily_spending[k].daily_spending

\* Payments 10, 20 and 30 approved on one day, with the day's total of 60.
C7_Witness ==
    /\ pc = "spending"
    /\ \E k \in DOMAIN daily_spending :
          /\ daily_spending[k].daily_spending = 60
          /\ {df[i].payment_value :
                 i \in IndexOnDay(df, daily_spending[k].order_approved_at)} = {10, 20, 30}

CountOfScore(x) == Cardinality({i \in DOMAIN df : df[i].review_score = Some(x)})

ScoresOf(d) == {Val(d[i].review_score) : i \in {j \in DOMAIN d : NotNull(d[j].review_score)}}

FirstMet(x) == Min({i \in DOMAIN df : df[i].review_score = Some(x)})

Analyzed == pc = "analyzed" /\ raised = ""

ModalScores == {x \in ScoresOf(df) : \A y \in ScoresOf(df) : CountOfScore(y) <= CountOfScore(x)}

HistogramIsCounts ==
    /\ Range(Column(review_stats, "rating")) = ScoresOf(df)
    /\ Len(review_stats) = Cardinality(ScoresOf(df))
    /\ \A k \in DOMAIN review_stats : review_stats[k].count = CountOfScore(review_stats[k].rating)

\* C6 as claimed: the mode has the maximum count of the histogram and, of
\* the scores sharing that count, it is the one met first in the table.
C6_ModeIsFirstMet ==
    Analyzed =>
        /\ HistogramIsCounts
        /\ top_review \in ModalScores
        /\ \A x \in ModalScores : FirstMet(top_review) <= FirstMet(x)

\* C6 as amended: the mode has the maximum count of the histogram and, of
\* the scores sharing that count, it is the one the histogram lists first.
C6_ModeIsFirstOfHistogram ==
    Analyzed =>
        /\ HistogramIsCounts
        /\ top_review \in ModalScores
        /\ \A k \in DOMAIN review_stats :
              review_stats[k].rating \in ModalScores =>
                  \E j \in 1 .. k : review_stats[j].rating = top_review
        /\ \A j, k \in DOMAIN review_stats :
              j < k => review_stats[j].count >= review_stats[k].count

\* Several scores share the maximum count and the mode is not the one met
\* first in the table.
C6_Witness ==
    /\ Analyzed
    /\ Cardinality(ModalScores) > 1
    /\ \E x \in ModalScores : FirstMet(x) < FirstMet(top_review)

Merged == pc \in {"merged", "mapped"}

Matches(c) == {j \in DOMAIN geo : geo[j].geolocation_zip_code_prefix = c.customer_zip_code_prefix}

JoinedRowsOf(c) == {k \in DOMAIN customers_df : customers_df[k].row.customer = c}

\* C5: every row of the customer table is in the join's result, and a row
\* whose zip prefix matches no geolocation row is there once for each time
\* it is in the customer table, with its geolocation fields missing.
C5_LeftJoinKeepsCustomers ==
    Merged =>
        \A c \in Range(df) :
            /\ Cardinality(JoinedRowsOf(c)) >= BagOf(df)[c]
            /\ Matches(c) = {} =>
                  /\ Cardinality(JoinedRowsOf(c)) = BagOf(df)[c]
                  /\ \A k \in JoinedRowsOf(c) :
                        /\ IsNull(customers_df[k].row.geolocation_zip_code_prefix)
                        /\ IsNull(customers_df[k].row.geolocation_lat)
                        /\ IsNull(customers_df[k].row.geolocation_lng)

\* A customer row with a matching geolocation row and one without.
C5_Witness ==
    /\ Merged
    /\ geo # <<>>
    /\ \E c \in Range(df) : Matches(c) = {} /\ JoinedRowsOf(c) # {}
    /\ \E c \in Range(df) : Matches(c) # {}

\* C8: de-duplicating the de-duplicated geolocation table changes nothing.
C8_DropDuplicatesIdempotent ==
    pc = "deduplicated" => out = geolocation_df

\* The first pass has dropped rows and has kept more than one.
C8_Witness ==
    /\ pc = "deduplicated"
    /\ Len(geolocation_df) < Len(csv)
    /\ Len(geolocation_df) > 1
    /\ out = geolocation_df

\* C9: every joined row with a missing longitude or latitude has no geometry
\* and is not in customers_gdf, and every row of customers_gdf has both.
C9_MissingCoordinatesDropped ==
    pc = "mapped" =>
        /\ \A i \in DOMAIN customers_df :
              (IsNull(customers_df[i].row.geolocation_lng)
                  \/ IsNull(customers_df[i].row.geolocation_lat)) =>
                  /\ IsNull(customers_df[i].geometry)
                  /\ customers_df[i] \notin Range(customers_gdf)
        /\ \A i \in DOMAIN customers_gdf :
              /\ NotNull(customers_gdf[i].row.geolocation_lng)
              /\ NotNull(customers_gdf[i].row.geolocation_lat)

====
